---- MODULE Spec2Model ----
(***************************************************************************)
(* Model of the sidecar-injection analyzer,                                *)
(* galley/pkg/config/analysis/analyzers/injection/injection.go.            *)
(*                                                                         *)
(* Analyzer.Analyze makes three passes over an immutable snapshot: it      *)
(* gathers the revisions of the control plane from the pods, classifies    *)
(* every namespace from its labels, and checks the pods of the injected    *)
(* namespaces for a proxy container.  One step of the model is one call of *)
(* a ForEach callback (or the code between two ForEach calls).             *)
(*                                                                         *)
(* Label and annotation maps are functions whose DOMAIN is the set of keys *)
(* present, so that "present with the empty value" and "absent" differ as  *)
(* they do in a Go map.  Annotation values are sequences of code points,   *)
(* so that strings.EqualFold is computed and not assumed.                  *)
(***************************************************************************)
EXTENDS Integers, Sequences, FiniteSets, TLC

VARIABLES
    pods,                  \* the snapshot's Pod collection, in iteration order
    namespaces,            \* the snapshot's Namespace collection, in iteration order
    pc,                    \* position in Analyze: "gather", "resolve", "done"
    gathered,              \* pods the first ForEach has called back for
    resolved,              \* namespaces the second ForEach has called back for
    checked,               \* pods the third ForEach has called back for
    controlPlaneRevisions, \* the map used as a set, line 65
    revisions,             \* the slice built from the map, lines 79-82
    injectedNamespaces,    \* the map used as a set, line 64
    reports,               \* what c.Report has received in this run, in order
    run,                   \* "first" or "second" call of Analyze on the snapshot
    firstReports           \* what c.Report received during the first call

vars == <<pods, namespaces, pc, gathered, resolved, checked,
          controlPlaneRevisions, revisions, injectedNamespaces,
          reports, run, firstReports>>

-----------------------------------------------------------------------------
(* Bounds of the snapshots explored.                                       *)

MaxPods == 2
MaxNamespaces == 1
MaxContainers == 2

-----------------------------------------------------------------------------
(* Program constants.                                                      *)

InjectionLabelName == "istio-injection"
InjectionLabelEnableValue == "enabled"
RevisionLabel == "istio.io/rev"
RevisionInjectionLabelName == RevisionLabel
istioProxyName == "istio-proxy"
IstioSystemNamespace == "istio-system"
SidecarInjectName == "sidecar.istio.io/inject"
AppLabelName == "app"
IstiodAppValue == "istiod"
RevisionSeparator == ", "

\* "false", the operand of strings.EqualFold, as code points
FalseLiteral == <<102, 97, 108, 115, 101>>

-----------------------------------------------------------------------------
(* Go primitives the analyzer relies on.                                   *)

NoEntries == <<>>

\* m[k] of a Go map: the zero value when the key is absent
Lookup(m, k) == IF k \in DOMAIN m THEN m[k] ELSE ""

\* the second result of  v, ok := m[k]
Has(m, k) == k \in DOMAIN m

\* m[k] of a map whose values are code-point strings
LookupText(m, k) == IF k \in DOMAIN m THEN m[k] ELSE <<>>

\* the representative of a code point's simple case-folding orbit:
\* A-Z fold onto a-z, and U+017F (long s) lies in the orbit of s and S
FoldRune(c) ==
    IF c >= 65 /\ c <= 90 THEN c + 32
    ELSE IF c = 383 THEN 115
    ELSE c

\* strings.EqualFold
EqualFold(s, t) ==
    /\ Len(s) = Len(t)
    /\ \A i \in 1..Len(s) : FoldRune(s[i]) = FoldRune(t[i])

\* strings.Join
RECURSIVE Join(_, _)
Join(elems, sep) ==
    IF Len(elems) = 0 THEN ""
    ELSE IF Len(elems) = 1 THEN elems[1]
    ELSE elems[1] \o sep \o Join(Tail(elems), sep)

\* the orders in which  for k := range m  can visit the keys of a map
RangeOrders(keys) ==
    {s \in [1..Cardinality(keys) -> keys] :
        \A i, j \in 1..Cardinality(keys) : i # j => s[i] # s[j]}

\* ForEachDone with the last resource left out
ForEachDoneEarly(n, coll) == n >= Len(coll) - 1

\* a ForEach has called back for every resource of the collection
ForEachDone(n, coll) == n = Len(coll)

-----------------------------------------------------------------------------
(* Collaborators of the analyzer.                                          *)

\* util.IsSystemNamespace: the predicate the analyzer consumes
SystemNamespaces == {"kube-system", "kube-public"}
IsSystemNamespace(ns) == ns \in SystemNamespaces

\* the msg constructors: a diagnostic is its kind, the resource it is about
\* (a collection and a position in it) and its positional arguments
NamespacesCollection == "k8s/core/v1/namespaces"
PodsCollection == "k8s/core/v1/pods"
Diagnostic(coll, kind, pos, args) ==
    [collection |-> coll, kind |-> kind, resource |-> pos, args |-> args]
NewNamespaceNotInjected(i, a, b) ==
    Diagnostic(NamespacesCollection, "NamespaceNotInjected", i, <<a, b>>)
NewNamespaceMultipleInjectionLabels(i, a, b) ==
    Diagnostic(NamespacesCollection, "NamespaceMultipleInjectionLabels", i, <<a, b>>)
NewNamespaceInvalidInjectorRevision(i, rev, ns, known) ==
    Diagnostic(NamespacesCollection, "NamespaceInvalidInjectorRevision", i,
               <<rev, ns, known>>)
NewPodMissingProxy(i) ==
    Diagnostic(PodsCollection, "PodMissingProxy", i, <<>>)

-----------------------------------------------------------------------------
(* First pass: revisions of the control plane.                             *)

\* isControlPlane without the check of the pod's namespace
isControlPlaneAnywhere(pod) == Lookup(pod.labels, AppLabelName) = IstiodAppValue

isControlPlane(pod) ==
    IF pod.namespace # IstioSystemNamespace THEN FALSE
    ELSE Lookup(pod.labels, AppLabelName) = IstiodAppValue

\* the callback of the first ForEach: the revision set after pod r
GatherRevision(r, cpr) ==
    IF isControlPlane(r) /\ Has(r.labels, RevisionLabel)
    THEN cpr \cup {r.labels[RevisionLabel]}
    ELSE cpr

-----------------------------------------------------------------------------
(* Second pass: the policy of one namespace.                               *)

\* SkipsSystemNamespace with the early return left out
SkipsNoNamespace(r) == FALSE

SkipsSystemNamespace(r) == IsSystemNamespace(r.name)

LacksInjectionLabels(r) ==
    /\ Lookup(r.labels, InjectionLabelName) = ""
    /\ ~Has(r.labels, RevisionInjectionLabelName)

HasMultipleLabels(r) ==
    /\ Has(r.labels, RevisionInjectionLabelName)
    /\ Lookup(r.labels, InjectionLabelName) # ""

\* HasUnknownRevision with the membership test inverted
HasKnownRevision(r, cpr) ==
    /\ Has(r.labels, RevisionInjectionLabelName)
    /\ Lookup(r.labels, RevisionInjectionLabelName) \in cpr

HasUnknownRevision(r, cpr) ==
    /\ Has(r.labels, RevisionInjectionLabelName)
    /\ Lookup(r.labels, RevisionInjectionLabelName) \notin cpr

IsLegacyOptOut(r) ==
    /\ ~Has(r.labels, RevisionInjectionLabelName)
    /\ Lookup(r.labels, InjectionLabelName) # InjectionLabelEnableValue

\* the return statement the callback of the second ForEach leaves by
NamespaceVerdict(r, cpr) ==
    IF SkipsSystemNamespace(r) THEN "system"
    ELSE IF LacksInjectionLabels(r) THEN "notInjected"
    ELSE IF HasMultipleLabels(r) THEN "multipleLabels"
    ELSE IF HasUnknownRevision(r, cpr) THEN "invalidRevision"
    ELSE IF IsLegacyOptOut(r) THEN "optOut"
    ELSE "injected"

\* what the callback reports for the namespace at position i
NamespaceReports(i, r, cpr, revs) ==
    LET verdict == NamespaceVerdict(r, cpr) IN
    IF verdict = "notInjected"
    THEN <<NewNamespaceNotInjected(i, r.name, r.name)>>
    ELSE IF verdict = "multipleLabels"
    THEN <<NewNamespaceMultipleInjectionLabels(i, r.name, r.name)>>
    ELSE IF verdict = "invalidRevision"
    THEN <<NewNamespaceInvalidInjectorRevision(
              i, Lookup(r.labels, RevisionInjectionLabelName), r.name,
              Join(revs, RevisionSeparator))>>
    ELSE <<>>

-----------------------------------------------------------------------------
(* Third pass: the proxy of one pod.                                       *)

\* ProxyImage without the break: the image of the last container named
\* istio-proxy
RECURSIVE LastProxyImage(_)
LastProxyImage(containers) ==
    IF Len(containers) = 0 THEN ""
    ELSE IF containers[Len(containers)].name = istioProxyName
    THEN containers[Len(containers)].image
    ELSE LastProxyImage(SubSeq(containers, 1, Len(containers) - 1))

\* the loop over pod.Spec.Containers: the image of the first container
\* named istio-proxy, "" when there is none
RECURSIVE ProxyImage(_)
ProxyImage(containers) ==
    IF Len(containers) = 0 THEN ""
    ELSE IF Head(containers).name = istioProxyName THEN Head(containers).image
    ELSE ProxyImage(Tail(containers))

\* InjectionDisabled with a case-sensitive comparison
InjectionDisabledExactly(pod) ==
    LookupText(pod.annotations, SidecarInjectName) = FalseLiteral

InjectionDisabled(pod) ==
    EqualFold(LookupText(pod.annotations, SidecarInjectName), FalseLiteral)

\* what the callback of the third ForEach reports for the pod at position i
PodReports(i, pod, injected) ==
    IF pod.namespace \notin injected THEN <<>>
    ELSE IF InjectionDisabled(pod) THEN <<>>
    ELSE IF ProxyImage(pod.containers) = "" THEN <<NewPodMissingProxy(i)>>
    ELSE <<>>

-----------------------------------------------------------------------------
(* The snapshots explored.                                                 *)

SeqsUpTo(S, n) == UNION {[1..k -> S] : k \in 0..n}

OptionalEntry(k, vals) == {NoEntries} \cup {k :> v : v \in vals}

NamespaceNames == {"ns1", "kube-system"}
LegacyValues == {"", "enabled", "disabled"}
NamespaceRevisionValues == {"", "canary"}

NamespaceLabelMaps ==
    {a @@ b : a \in OptionalEntry(InjectionLabelName, LegacyValues),
              b \in OptionalEntry(RevisionInjectionLabelName, NamespaceRevisionValues)}

NamespaceResources ==
    {[name |-> n, labels |-> l] : n \in NamespaceNames, l \in NamespaceLabelMaps}

\* the names of a namespace collection are distinct
NamespaceCollections ==
    {s \in SeqsUpTo(NamespaceResources, MaxNamespaces) :
        \A i, j \in 1..Len(s) : i # j => s[i].name # s[j].name}

Pod(ns, labels, annotations, containers) ==
    [namespace |-> ns, labels |-> labels,
     annotations |-> annotations, containers |-> containers]

\* pods around the control plane: none declares a container
ControlPlaneCandidates ==
    { Pod(IstioSystemNamespace,
          (AppLabelName :> IstiodAppValue) @@ (RevisionLabel :> "canary"), NoEntries, <<>>),
      Pod(IstioSystemNamespace,
          (AppLabelName :> IstiodAppValue) @@ (RevisionLabel :> "stable"), NoEntries, <<>>),
      Pod(IstioSystemNamespace, (AppLabelName :> IstiodAppValue), NoEntries, <<>>),
      Pod(IstioSystemNamespace,
          (AppLabelName :> "pilot") @@ (RevisionLabel :> "canary"), NoEntries, <<>>),
      Pod(IstioSystemNamespace, (RevisionLabel :> "stable"), NoEntries, <<>>),
      Pod("ns1",
          (AppLabelName :> IstiodAppValue) @@ (RevisionLabel :> "stable"), NoEntries, <<>>) }

\* snapshots that exercise revision discovery and the namespace policy
PolicySnapshots ==
    {[pods |-> p, namespaces |-> n] :
        p \in SeqsUpTo(ControlPlaneCandidates, MaxPods), n \in NamespaceCollections}

Containers ==
    {[name |-> n, image |-> i] : n \in {istioProxyName, "app"}, i \in {"", "proxyv2"}}

\* "false", "FALSE", "faLSe", "fal" \o U+017F \o "e", "true", "fals"
InjectAnnotationValues ==
    { <<102, 97, 108, 115, 101>>, <<70, 65, 76, 83, 69>>, <<102, 97, 76, 83, 101>>,
      <<102, 97, 108, 383, 101>>, <<116, 114, 117, 101>>, <<102, 97, 108, 115>> }

WorkloadPods ==
    {Pod(ns, NoEntries, a, c) :
        ns \in {"ns1", "ns2"},
        a \in OptionalEntry(SidecarInjectName, InjectAnnotationValues),
        c \in SeqsUpTo(Containers, MaxContainers)}

WorkloadNamespaces ==
    { <<>>,
      <<[name |-> "ns1", labels |-> (InjectionLabelName :> InjectionLabelEnableValue)]>>,
      <<[name |-> "ns1", labels |-> (InjectionLabelName :> "disabled")]>>,
      <<[name |-> "ns1", labels |-> NoEntries]>> }

\* snapshots that exercise the pod check
WorkloadSnapshots ==
    {[pods |-> <<p>>, namespaces |-> n] : p \in WorkloadPods, n \in WorkloadNamespaces}

\* snapshots in which one namespace is injected and another is diagnosed
MixedNamespaces ==
    LET injected == [name |-> "ns1",
                     labels |-> (InjectionLabelName :> InjectionLabelEnableValue)]
        unlabelled == [name |-> "ns2", labels |-> NoEntries]
        pinned == [name |-> "ns2", labels |-> (RevisionInjectionLabelName :> "beta")]
    IN  { <<injected, unlabelled>>, <<unlabelled, injected>>,
          <<injected, pinned>>, <<pinned, injected>> }

MixedPods ==
    { Pod(IstioSystemNamespace,
          (AppLabelName :> IstiodAppValue) @@ (RevisionLabel :> "canary"), NoEntries, <<>>),
      Pod(IstioSystemNamespace,
          (AppLabelName :> IstiodAppValue) @@ (RevisionLabel :> "stable"), NoEntries, <<>>),
      Pod("ns1", NoEntries, NoEntries, <<[name |-> "app", image |-> "app:1"]>>) }

MixedSnapshots ==
    {[pods |-> p, namespaces |-> n] :
        p \in SeqsUpTo(MixedPods, MaxPods + 1), n \in MixedNamespaces}

Snapshots == PolicySnapshots \cup WorkloadSnapshots \cup MixedSnapshots

-----------------------------------------------------------------------------
(* Analyze, one callback at a time.                                        *)

Init ==
    /\ \E snap \in Snapshots :
          /\ pods = snap.pods
          /\ namespaces = snap.namespaces
    /\ pc = "gather"
    /\ gathered = 0
    /\ resolved = 0
    /\ checked = 0
    /\ controlPlaneRevisions = {}
    /\ revisions = <<>>
    /\ injectedNamespaces = {}
    /\ reports = <<>>
    /\ run = "first"
    /\ firstReports = <<>>

\* lines 68-77: one callback of the first ForEach
GatherRevisions ==
    /\ pc = "gather"
    /\ gathered < Len(pods)
    /\ controlPlaneRevisions' = GatherRevision(pods[gathered + 1], controlPlaneRevisions)
    /\ gathered' = gathered + 1
    /\ UNCHANGED <<pods, namespaces, pc, resolved, checked, revisions,
                   injectedNamespaces, reports, run, firstReports>>

\* lines 79-82: the slice of the map's keys, in the order range yields them
CollectRevisions ==
    /\ pc = "gather"
    /\ ForEachDone(gathered, pods)
    /\ \E order \in RangeOrders(controlPlaneRevisions) : revisions' = order
    /\ pc' = "resolve"
    /\ UNCHANGED <<pods, namespaces, gathered, resolved, checked,
                   controlPlaneRevisions, injectedNamespaces, reports, run,
                   firstReports>>

\* lines 84-126: one callback of the second ForEach
ResolveNamespace ==
    /\ pc = "resolve"
    /\ resolved < Len(namespaces)
    /\ LET r == namespaces[resolved + 1] IN
          /\ reports' = reports \o NamespaceReports(resolved + 1, r,
                                                    controlPlaneRevisions, revisions)
          /\ injectedNamespaces' =
                IF NamespaceVerdict(r, controlPlaneRevisions) = "injected"
                THEN injectedNamespaces \cup {r.name}
                ELSE injectedNamespaces
    /\ resolved' = resolved + 1
    /\ UNCHANGED <<pods, namespaces, pc, gathered, checked,
                   controlPlaneRevisions, revisions, run, firstReports>>

\* lines 128-153: one callback of the third ForEach
CheckPod ==
    /\ pc = "resolve"
    /\ ForEachDone(resolved, namespaces)
    /\ checked < Len(pods)
    /\ reports' = reports \o PodReports(checked + 1, pods[checked + 1],
                                        injectedNamespaces)
    /\ checked' = checked + 1
    /\ UNCHANGED <<pods, namespaces, pc, gathered, resolved,
                   controlPlaneRevisions, revisions, injectedNamespaces, run,
                   firstReports>>

\* line 154: Analyze returns
Return ==
    /\ pc = "resolve"
    /\ ForEachDone(resolved, namespaces)
    /\ ForEachDone(checked, pods)
    /\ pc' = "done"
    /\ UNCHANGED <<pods, namespaces, gathered, resolved, checked,
                   controlPlaneRevisions, revisions, injectedNamespaces,
                   reports, run, firstReports>>

\* lines 63-65: Analyze is called again on the same snapshot, with fresh
\* accumulators and a fresh sink
AnalyzeAgain ==
    /\ pc = "done"
    /\ run = "first"
    /\ run' = "second"
    /\ firstReports' = reports
    /\ reports' = <<>>
    /\ pc' = "gather"
    /\ gathered' = 0
    /\ resolved' = 0
    /\ checked' = 0
    /\ controlPlaneRevisions' = {}
    /\ revisions' = <<>>
    /\ injectedNamespaces' = {}
    /\ UNCHANGED <<pods, namespaces>>

Next ==
    \/ GatherRevisions
    \/ CollectRevisions
    \/ ResolveNamespace
    \/ CheckPod
    \/ Return
    \/ AnalyzeAgain

Spec == Init /\ [][Next]_vars

-----------------------------------------------------------------------------
(* Vocabulary of the properties, stated on the snapshot and on the sink,   *)
(* not on the analyzer's branches.                                         *)

LegacyPresent(r) == InjectionLabelName \in DOMAIN r.labels
RevisionPresent(r) == RevisionInjectionLabelName \in DOMAIN r.labels

\* the diagnostics the sink holds about the resource at position i of coll
ReportsAbout(coll, i) ==
    SelectSeq(reports, LAMBDA d : d.collection = coll /\ d.resource = i)

NamespaceReportsAbout(i) == ReportsAbout(NamespacesCollection, i)
PodReportsAbout(i) == ReportsAbout(PodsCollection, i)

\* the pods of the control plane that carry a revision label
LabelledControlPlanePods ==
    {i \in 1..Len(pods) :
        /\ pods[i].namespace = "istio-system"
        /\ "app" \in DOMAIN pods[i].labels
        /\ pods[i].labels["app"] = "istiod"
        /\ "istio.io/rev" \in DOMAIN pods[i].labels}

DiscoveredRevisions == {pods[i].labels["istio.io/rev"] : i \in LabelledControlPlanePods}

\* the discovered revisions, each at the place the pod snapshot first shows it
RECURSIVE FirstMet(_, _)
FirstMet(i, seen) ==
    IF i > Len(pods) THEN <<>>
    ELSE IF i \in LabelledControlPlanePods /\ pods[i].labels["istio.io/rev"] \notin seen
    THEN <<pods[i].labels["istio.io/rev"]>>
         \o FirstMet(i + 1, seen \cup {pods[i].labels["istio.io/rev"]})
    ELSE FirstMet(i + 1, seen)

DiscoveryOrder == FirstMet(1, {})

\* the namespaces the second pass has dealt with and not skipped as system
ResolvedUserNamespaces ==
    {i \in 1..resolved : ~IsSystemNamespace(namespaces[i].name)}

\* the pods the third pass has dealt with
CheckedPods == 1..checked

\* s is "false" up to the case of its five letters
IsFalseInSomeCase(s) ==
    /\ Len(s) = 5
    /\ s[1] \in {102, 70}
    /\ s[2] \in {97, 65}
    /\ s[3] \in {108, 76}
    /\ s[4] \in {115, 83}
    /\ s[5] \in {101, 69}

InjectAnnotation(pod) ==
    IF "sidecar.istio.io/inject" \in DOMAIN pod.annotations
    THEN pod.annotations["sidecar.istio.io/inject"]
    ELSE <<>>

-----------------------------------------------------------------------------
(* C1 *)

\* C1: every non-system namespace that carries both the legacy label and the
\* revision label, whatever their values, gets exactly one
\* namespace-multiple-injection-labels diagnostic, no other namespace
\* diagnostic, and is not added to the injected set.
C1_BothLabelsAlwaysConflict ==
    \A i \in ResolvedUserNamespaces :
        LET r == namespaces[i] IN
        (LegacyPresent(r) /\ RevisionPresent(r)) =>
            /\ NamespaceReportsAbout(i) =
                  <<NewNamespaceMultipleInjectionLabels(i, r.name, r.name)>>
            /\ r.name \notin injectedNamespaces

-----------------------------------------------------------------------------
(* C2 *)

\* C2: every non-system namespace whose legacy label is present with a value
\* other than "enabled" (the empty string included) and whose revision label
\* is absent gets no namespace diagnostic and is not added to the injected set.
C2_LegacyOptOutIsSilent ==
    \A i \in ResolvedUserNamespaces :
        LET r == namespaces[i] IN
        (/\ LegacyPresent(r)
         /\ r.labels["istio-injection"] # "enabled"
         /\ ~RevisionPresent(r)) =>
            /\ NamespaceReportsAbout(i) = <<>>
            /\ r.name \notin injectedNamespaces

-----------------------------------------------------------------------------
(* C3 *)

\* C3: every non-system namespace with only a revision label whose value is
\* not a discovered revision gets exactly one
\* namespace-invalid-injector-revision diagnostic that carries the requested
\* value and the discovered revisions joined in the order in which the first
\* pass met them; the namespace is not added to the injected set.
C3_KnownRevisionsInDiscoveryOrder ==
    \A i \in ResolvedUserNamespaces :
        LET r == namespaces[i] IN
        (/\ ~LegacyPresent(r)
         /\ RevisionPresent(r)
         /\ r.labels["istio.io/rev"] \notin DiscoveredRevisions) =>
            /\ NamespaceReportsAbout(i) =
                  <<NewNamespaceInvalidInjectorRevision(
                       i, r.labels["istio.io/rev"], r.name,
                       Join(DiscoveryOrder, ", "))>>
            /\ r.name \notin injectedNamespaces

-----------------------------------------------------------------------------
(* C4 *)

\* C4: a second run of Analyze on the same snapshot reports the same
\* sequence of diagnostics as the first: same length, and the same kind,
\* resource and arguments at every position.
C4_SecondRunReportsTheSame ==
    (run = "second" /\ pc = "done") => reports = firstReports

-----------------------------------------------------------------------------
(* C5 *)

ProxyContainers(pod) ==
    {k \in 1..Len(pod.containers) : pod.containers[k].name = "istio-proxy"}

\* the pods the third pass has checked that are subject to the proxy check
SubjectPods ==
    {i \in CheckedPods :
        /\ pods[i].namespace \in injectedNamespaces
        /\ ~EqualFold(InjectAnnotation(pods[i]), FalseLiteral)}

\* C5 as stated: a pod of an injected namespace that has not opted out gets
\* exactly one pod-missing-proxy diagnostic when no container named
\* istio-proxy has a non-empty image, and none when some container named
\* istio-proxy has a non-empty image.
C5_AnyProxyContainerCounts ==
    \A i \in SubjectPods :
        LET imaged == {k \in ProxyContainers(pods[i]) : pods[i].containers[k].image # ""}
        IN  PodReportsAbout(i) =
                IF imaged = {} THEN <<NewPodMissingProxy(i)>> ELSE <<>>

\* C5 amended: a pod of an injected namespace that has not opted out gets
\* exactly one pod-missing-proxy diagnostic when it has no container named
\* istio-proxy or the first such container has an empty image, and none when
\* the first container named istio-proxy has a non-empty image.
C5_FirstProxyContainerCounts ==
    \A i \in SubjectPods :
        LET proxies == ProxyContainers(pods[i])
            first == CHOOSE k \in proxies : \A m \in proxies : k <= m
        IN  PodReportsAbout(i) =
                IF proxies = {} \/ pods[i].containers[first].image = ""
                THEN <<NewPodMissingProxy(i)>>
                ELSE <<>>

\* a checked pod with two containers named istio-proxy, of which only the
\* second has an image, was reported
C5_Witness ==
    \E i \in SubjectPods :
        /\ Len(pods[i].containers) = 2
        /\ ProxyContainers(pods[i]) = {1, 2}
        /\ pods[i].containers[1].image = ""
        /\ pods[i].containers[2].image # ""
        /\ PodReportsAbout(i) = <<NewPodMissingProxy(i)>>

-----------------------------------------------------------------------------
(* C6 *)

\* the namespace resources of the snapshot that bear the name ns
NamespacesNamed(ns) == {i \in 1..Len(namespaces) : namespaces[i].name = ns}

\* C6: pod-missing-proxy is only ever reported for a pod whose namespace is
\* in the injected set (so its namespace resource is in the snapshot, is not
\* a system namespace and got no diagnostic) and whose inject annotation is
\* not "false" in any letter case.
C6_NoProxyCheckOutsideInjection ==
    \A i \in 1..Len(pods) :
        PodReportsAbout(i) # <<>> =>
            /\ i \in CheckedPods
            /\ pods[i].namespace \in injectedNamespaces
            /\ ~IsSystemNamespace(pods[i].namespace)
            /\ NamespacesNamed(pods[i].namespace) # {}
            /\ \A n \in NamespacesNamed(pods[i].namespace) :
                  NamespaceReportsAbout(n) = <<>>
            /\ ~IsFalseInSomeCase(InjectAnnotation(pods[i]))

\* a pod without a proxy, annotated "FALSE", in an injected namespace, was
\* checked and not reported
C6_Witness ==
    \E i \in CheckedPods :
        /\ pods[i].namespace \in injectedNamespaces
        /\ InjectAnnotation(pods[i]) = <<70, 65, 76, 83, 69>>
        /\ ProxyContainers(pods[i]) = {}
        /\ PodReportsAbout(i) = <<>>

-----------------------------------------------------------------------------
(* C7 *)

\* C7: a system namespace gets no namespace diagnostic, whatever labels it
\* carries, and is never added to the injected set.
C7_SystemNamespacesAreSkipped ==
    \A i \in 1..Len(namespaces) :
        IsSystemNamespace(namespaces[i].name) =>
            /\ NamespaceReportsAbout(i) = <<>>
            /\ namespaces[i].name \notin injectedNamespaces

\* system namespaces that would otherwise be injected, conflict or be
\* reported as not injected have been passed over
C7_Witness ==
    \E i \in 1..resolved :
        /\ IsSystemNamespace(namespaces[i].name)
        /\ LegacyPresent(namespaces[i])
        /\ namespaces[i].labels["istio-injection"] = "enabled"
        /\ ~RevisionPresent(namespaces[i])
        /\ reports = <<>>
        /\ injectedNamespaces = {}

-----------------------------------------------------------------------------
(* C8 *)

\* C8: a non-system namespace is added to the injected set, with no
\* diagnostic, when its legacy label is absent and its revision label names a
\* discovered revision, and when its legacy label is "enabled" and its
\* revision label is absent.
C8_EnabledNamespacesAreInjected ==
    \A i \in ResolvedUserNamespaces :
        LET r == namespaces[i] IN
        (\/ /\ ~LegacyPresent(r)
            /\ RevisionPresent(r)
            /\ r.labels["istio.io/rev"] \in DiscoveredRevisions
         \/ /\ LegacyPresent(r)
            /\ r.labels["istio-injection"] = "enabled"
            /\ ~RevisionPresent(r)) =>
            /\ r.name \in injectedNamespaces
            /\ NamespaceReportsAbout(i) = <<>>

\* a namespace pinned to a discovered revision has been injected
C8_Witness ==
    \E i \in ResolvedUserNamespaces :
        /\ ~LegacyPresent(namespaces[i])
        /\ RevisionPresent(namespaces[i])
        /\ namespaces[i].labels["istio.io/rev"] \in DiscoveredRevisions
        /\ namespaces[i].name \in injectedNamespaces

-----------------------------------------------------------------------------
(* C9 *)

\* the kinds of diagnostic and the membership of the injected set that the
\* labels of r call for, given the revisions of all pods of the snapshot
ExpectedOutcome(r) ==
    IF ~LegacyPresent(r) /\ ~RevisionPresent(r) THEN "NamespaceNotInjected"
    ELSE IF LegacyPresent(r) /\ r.labels["istio-injection"] = "" /\ ~RevisionPresent(r)
    THEN "NamespaceNotInjected"
    ELSE IF RevisionPresent(r) /\ LegacyPresent(r) /\ r.labels["istio-injection"] # ""
    THEN "NamespaceMultipleInjectionLabels"
    ELSE IF RevisionPresent(r)
    THEN IF r.labels["istio.io/rev"] \in DiscoveredRevisions
         THEN "injected" ELSE "NamespaceInvalidInjectorRevision"
    ELSE IF r.labels["istio-injection"] = "enabled" THEN "injected"
    ELSE "silent"

ObservedOutcome(i) ==
    IF namespaces[i].name \in injectedNamespaces /\ NamespaceReportsAbout(i) = <<>>
    THEN "injected"
    ELSE IF namespaces[i].name \notin injectedNamespaces
            /\ Len(NamespaceReportsAbout(i)) = 1
    THEN NamespaceReportsAbout(i)[1].kind
    ELSE IF namespaces[i].name \notin injectedNamespaces
            /\ NamespaceReportsAbout(i) = <<>>
    THEN "silent"
    ELSE "other"

\* C9: no namespace is classified before the first pass has scanned every
\* pod, no pod is checked before every namespace is classified, every
\* namespace diagnostic precedes every pod-missing-proxy diagnostic, and the
\* outcome for a namespace is the one the revisions of all pods call for,
\* wherever the control-plane pods sit in the pod collection.
C9_PassesRunInSequence ==
    /\ resolved > 0 => gathered = Len(pods)
    /\ checked > 0 => (gathered = Len(pods) /\ resolved = Len(namespaces))
    /\ \A j, k \in 1..Len(reports) :
          (reports[j].collection = "k8s/core/v1/namespaces"
           /\ reports[k].collection = "k8s/core/v1/pods") => j < k
    /\ \A i \in ResolvedUserNamespaces :
          ObservedOutcome(i) = ExpectedOutcome(namespaces[i])

\* a run is over in which a namespace and a pod were reported and the last
\* pod of the snapshot is the only one to bring a revision
C9_Witness ==
    /\ pc = "done"
    /\ \E j, k \in 1..Len(reports) :
          /\ reports[j].collection = "k8s/core/v1/namespaces"
          /\ reports[k].collection = "k8s/core/v1/pods"
    /\ Len(pods) \in LabelledControlPlanePods
    /\ Cardinality(LabelledControlPlanePods) = 1

-----------------------------------------------------------------------------
(* C10 *)

====
